---- MODULE Spec2Model ----
(***************************************************************************)
(* Model of LlmInlineCompletionItemProvider (the inline-completion engine  *)
(* of src/src/extension/externalAgents/node/oaiLanguageModelServer.ts):    *)
(* the session registry, the streaming session driver, the request         *)
(* throttle and the update delayer, run by one cooperative scheduler.      *)
(* A host call or a timer/transport callback is one macrotask (one         *)
(* action); a promise continuation that is already resolved is a microtask *)
(* and runs before any further macrotask.                                  *)
(* With it, the language-model server of the same file                     *)
(* (OpenAILanguageModelServer: start, getConfig, the HTTP request handler, *)
(* endpoint selection) and the manager that starts a server on demand      *)
(* (CopilotCLIAgentManager of                                              *)
(* src/src/extension/agents/copilotcli/node/copilotcliAgentManager.ts).    *)
(***************************************************************************)
EXTENDS Integers, Sequences, FiniteSets, TLC

VARIABLES
    now,                    \* Date.now(), in ms
    _lastRequestTimestamp,  \* LlmInlineCompletionItemProvider._lastRequestTimestamp
    _sessions,              \* the Map requestKey -> session (index into sessions)
    sessions,               \* every CompletionSession object created so far, with its driver
    _updateDelayer,         \* deadline of the pending ThrottledDelayer run, 0 when none
    call,                   \* the last provideInlineCompletionItems call: its key, version and result
    dispatches,             \* timestamps at which a driver went past _throttle (line 611)
    _langModelServer,       \* CopilotCLIAgentManager._langModelServer: "undefined" or "created"
    config,                 \* the server's config: port (0 until listening) and nonce
    server,                 \* the http.Server: "created", "binding" (listen called) or "listening"
    handleRequests,         \* every CopilotCLIAgentManager.handleRequest call so far
    cliSessions,            \* the CopilotCLISession wrappers: session id, port of _serverConfig
    httpRequests            \* every HTTP request the server's handler was called with

providerVars == <<now, _lastRequestTimestamp, _sessions, sessions, _updateDelayer, call, dispatches>>
serverVars == <<_langModelServer, config, server, handleRequests, cliSessions, httpRequests>>

vars == <<now, _lastRequestTimestamp, _sessions, sessions, _updateDelayer, call, dispatches,
          _langModelServer, config, server, handleRequests, cliSessions, httpRequests>>

----------------------------------------------------------------------------
(* Program constants *)

MIN_REQUEST_INTERVAL == 75
MAX_PREFIX_CHARS == 4000
MAX_SUFFIX_CHARS == 2000
STREAM_UPDATE_DELAY == 50

(* Bounds of the model *)

MaxSessions == 2      \* sessions the host may start (Spec)
MaxWaiters == 3       \* sessions the host may start (SpecThrottle)
StartTime == 100      \* Date.now() when the provider is constructed
TickStep == 75        \* clock step (Spec)
FineStep == 25        \* clock step (SpecThrottle)
MaxTicks == 1         \* clock steps (Spec)
MaxFineTicks == 3     \* clock steps (SpecThrottle)
MaxTextLen == 1       \* longest text the transport streams or returns
MaxStreamLen == 3     \* longest text the transport streams (SpecStream)
MaxSolo == 1          \* sessions the host may start (SpecStream)
MaxCalls == 3         \* handleRequest calls (SpecManager)
MaxHttp == 1          \* HTTP requests (SpecHttp)

----------------------------------------------------------------------------
(* Host inputs *)

NoUuid == "<no requestUuid>"
NoUri == "<no uri>"
RequestUuids == {NoUuid, "r1"}
Uris == {"file:///u1"}
Versions == {1, 2}

\* A document with no text, and one longer than both context windows together,
\* made of characters that are not word characters.
BigLen == 6003
Filler == <<" ", "(", ")", ";", "{", "}", "=">>
ExtractUris == {"file:///empty", "file:///big"}

\* The one line of a document at a version: the text buffer is the host's.
DocLine(uri, version) ==
    IF uri = "file:///empty" THEN <<>>
    ELSE IF uri = "file:///big" THEN [k \in 1..BigLen |-> Filler[(k % Len(Filler)) + 1]]
    ELSE IF uri = "file:///u2" THEN (IF version = 1 THEN <<" ">> ELSE <<" ", " ">>)
    ELSE IF version = 1 THEN <<"f">> ELSE <<"f", "x">>

LanguageId(uri) == "typescript"

WordChars == {"f", "x", "_", "0"}

\* ConfigKey.Shared.Enable: absent, or a record language id -> "true" | "false" | "undefined"
NoConfig == [present |-> FALSE, map |-> <<>>]
Configs ==
    {NoConfig, [present |-> TRUE, map |-> [x \in {"typescript"} |-> "false"]]}

\* Strings are sequences of characters.
Alphabet == {"a"}
Empty == <<>>
Deltas == {Empty} \cup {<<c>> : c \in Alphabet}
Texts == UNION {[1..n -> Alphabet] : n \in 0..MaxTextLen}

IsPrefix(s, t) == Len(s) <= Len(t) /\ SubSeq(t, 1, Len(s)) = s

\* session.error: undefined, or a string (possibly the empty string)
NoError == "<undefined>"

\* config.nonce ('vscode-lm-' + generateUuid()), as characters
Nonce == <<"n", "1">>
Reasons == {"", "rate_limited"}
Messages == {"", "rate_limited"}
Truthy(e) == e # NoError /\ e # ""

----------------------------------------------------------------------------
(* Return values of provideInlineCompletionItems *)

Nothing == [some |-> FALSE, text |-> Empty, range |-> 0, correlationId |-> <<NoUuid, NoUri, 0, 0>>]
ListOf(s) == [some |-> TRUE, text |-> s.text, range |-> s.range, correlationId |-> s.requestUuid]

----------------------------------------------------------------------------
(* Pure helpers *)

\* line 550: context.requestUuid ?? `${uri}#${version}#${line}:${character}`
RequestKey(uuid, uri, version, character) ==
    IF uuid # NoUuid THEN <<uuid, NoUri, 0, 0>> ELSE <<NoUuid, uri, version, character>>

\* Variant: the wildcard entry is not consulted.
IsLanguageEnabled_NoWildcard(cfg, languageId) ==
    IF ~cfg.present THEN TRUE
    ELSE LET value == IF languageId \in DOMAIN cfg.map THEN cfg.map[languageId] ELSE "undefined"
         IN value # "false"

\* _isLanguageEnabled (lines 683-695)
IsLanguageEnabled(cfg, languageId) ==
    IF ~cfg.present THEN TRUE
    ELSE LET star == IF "*" \in DOMAIN cfg.map THEN cfg.map["*"] ELSE "true"
             value == IF languageId \in DOMAIN cfg.map THEN cfg.map[languageId] ELSE "undefined"
             chosen == IF value # "undefined" THEN value
                       ELSE IF star # "undefined" THEN star ELSE "true"
         IN chosen = "true"

\* Variant: the character before the cursor is tested.
IsAtMidWord_Before(line, character) ==
    IF character = 0 THEN FALSE
    ELSE line[character] \in WordChars

IsAtMidWord(line, character) ==
    IF character >= Len(line) THEN FALSE
    ELSE line[character + 1] \in WordChars

\* String.prototype.slice(start, end): a negative index counts from the end, and
\* both indices are clamped to the string.
JsSlice(s, start, end) ==
    LET len == Len(s)
        from == IF start < 0 THEN (IF len + start > 0 THEN len + start ELSE 0)
                ELSE (IF start < len THEN start ELSE len)
        to == IF end < 0 THEN (IF len + end > 0 THEN len + end ELSE 0)
              ELSE (IF end < len THEN end ELSE len)
    IN SubSeq(s, from + 1, to)

\* document.getText(new Range(from, to)) on the document's one line
GetText(line, from, to) == SubSeq(line, from + 1, to)

\* Variant: the prefix window is cut from the start of the text before the cursor.
ExtractContext_Head(line, character) ==
    LET prefixFull == GetText(line, 0, character)
        suffixFull == GetText(line, character, Len(line))
    IN [some |-> TRUE,
        prefix |-> JsSlice(prefixFull, 0, MAX_PREFIX_CHARS),
        suffix |-> JsSlice(suffixFull, 0, MAX_SUFFIX_CHARS)]

\* _extractContext (lines 707-715)
ExtractContext(line, character) ==
    LET prefixFull == GetText(line, 0, character)
        suffixFull == GetText(line, character, Len(line))
    IN [some |-> TRUE,
        prefix |-> JsSlice(prefixFull, -MAX_PREFIX_CHARS, Len(prefixFull)),
        suffix |-> JsSlice(suffixFull, 0, MAX_SUFFIX_CHARS)]

NoContext == [some |-> FALSE, prefix |-> Empty, suffix |-> Empty]

\* Array.prototype.join: the parts with the separator between them
RECURSIVE Join(_, _)
Join(parts, sep) ==
    IF parts = <<>> THEN <<>>
    ELSE IF Len(parts) = 1 THEN parts[1]
    ELSE parts[1] \o <<sep>> \o Join(Tail(parts), sep)

\* String.prototype.trim
Whitespace == {" ", "\t", "\n"}

RECURSIVE Trim(_)
Trim(s) ==
    IF s = <<>> THEN s
    ELSE IF s[1] \in Whitespace THEN Trim(Tail(s))
    ELSE IF s[Len(s)] \in Whitespace THEN Trim(SubSeq(s, 1, Len(s) - 1))
    ELSE s

\* Variant: the windows are put into the prompt as they are.
BuildUserPrompt_NoPlaceholder(languageId, prefix, suffix, userPrompt) ==
    Join(<< <<"Language: ", languageId>>,
            <<"Continue the code at the cursor. Provide only valid code with no explanation or surrounding quotes.">> >>
         \o (IF userPrompt # Empty
             THEN << Empty, <<"User instruction:">>, Trim(userPrompt) >> ELSE <<>>)
         \o << Empty, <<"Prefix:">>, prefix >>
         \o << Empty, <<"Suffix:">>, suffix >>,
         "\n")

\* _buildUserPrompt (lines 717-730). The text is a sequence of pieces: the
\* characters of the document and of the instruction, the literals of the template.
BuildUserPrompt(languageId, prefix, suffix, userPrompt) ==
    Join(<< <<"Language: ", languageId>>,
            <<"Continue the code at the cursor. Provide only valid code with no explanation or surrounding quotes.">> >>
         \o (IF userPrompt # Empty
             THEN << Empty, <<"User instruction:">>, Trim(userPrompt) >> ELSE <<>>)
         \o << Empty, <<"Prefix:">>, IF prefix # Empty THEN prefix ELSE <<"<empty>">> >>
         \o << Empty, <<"Suffix:">>, IF suffix # Empty THEN suffix ELSE <<"<empty>">> >>,
         "\n")

\* line 573: context.userPrompt ?? '' of a host that gives no instruction
NoUserPrompt == Empty

----------------------------------------------------------------------------
(* CancellationTokenSource of a session (session.cancellation) *)

\* cancel(): sets the flag and fires the token's listeners; the listener of
\* raceCancellation (line 736) resolves the throttle wait. cancelCalls counts the
\* invocations.
CancelSource(s) ==
    [s EXCEPT !.isCancellationRequested = TRUE,
              !.cancelCalls = @ + 1,
              !.pc = IF @ = "throttle" THEN "woken" ELSE @,
              !.deadline = 0]

\* dispose(): drops the listener on the parent (host) token and the token's own listeners.
DisposeSource(s) ==
    [s EXCEPT !.disposed = TRUE, !.disposeCalls = @ + 1]

----------------------------------------------------------------------------
(* Registry state threaded through a handler: st = [sessions, map, delayer] *)

Here == [sessions |-> sessions, map |-> _sessions, delayer |-> _updateDelayer]

\* Variant: a trigger during a pending run clears the timer and starts none.
Trigger_LosesTimer(deadline, t) ==
    IF deadline # 0 THEN -1 ELSE t + STREAM_UPDATE_DELAY

\* Variant: no window, every trigger is due at once and delivered on its own.
Trigger_NoWindow(deadline, t) == t

\* ThrottledDelayer.trigger at time t: the pending run, if any, is put off and the
\* task runs once, STREAM_UPDATE_DELAY after the latest trigger. The result is the
\* new deadline.
Trigger(deadline, t) == t + STREAM_UPDATE_DELAY

\* _scheduleDidChange(): (re)arms the delayer
ScheduleDidChange(st) ==
    [st EXCEPT !.delayer = Trigger(@, now)]

MapDelete(m, k) == [x \in (DOMAIN m) \ {k} |-> m[x]]
MapSet(m, k, v) == [x \in (DOMAIN m) \cup {k} |-> IF x = k THEN v ELSE m[x]]

\* Variant: _clearSession schedules an update also when it finds no session.
ClearSession_AlwaysSchedules(st, requestUuid, cancel) ==
    IF requestUuid \notin DOMAIN st.map THEN ScheduleDidChange(st)
    ELSE LET i == st.map[requestUuid]
             s == st.sessions[i]
             fire == cancel /\ ~s.isCancellationRequested
             s1 == IF fire THEN CancelSource(s) ELSE s
             s2 == [DisposeSource(s1) EXCEPT !.clearedWith = IF cancel THEN "cancel" ELSE "keep"]
         IN ScheduleDidChange([st EXCEPT !.sessions[i] = s2,
                                         !.map = MapDelete(@, requestUuid)])

\* Variant: _clearSession never calls cancel().
ClearSession_NeverCancels(st, requestUuid, cancel) ==
    IF requestUuid \notin DOMAIN st.map THEN st
    ELSE LET i == st.map[requestUuid]
             s2 == [DisposeSource(st.sessions[i]) EXCEPT !.clearedWith = IF cancel THEN "cancel" ELSE "keep"]
         IN ScheduleDidChange([st EXCEPT !.sessions[i] = s2,
                                         !.map = MapDelete(@, requestUuid)])

\* Variant: _clearSession without `this._sessions.delete(requestUuid)`.
ClearSession_NoDelete(st, requestUuid, cancel) ==
    IF requestUuid \notin DOMAIN st.map THEN st
    ELSE LET i == st.map[requestUuid]
             s == st.sessions[i]
             fire == cancel /\ ~s.isCancellationRequested
             s1 == IF fire THEN CancelSource(s) ELSE s
             s2 == [DisposeSource(s1) EXCEPT !.clearedWith = IF cancel THEN "cancel" ELSE "keep"]
         IN ScheduleDidChange([st EXCEPT !.sessions[i] = s2])

\* Variant: _clearSession without the `!token.isCancellationRequested` test of line 752.
ClearSession_CancelsUnconditionally(st, requestUuid, cancel) ==
    IF requestUuid \notin DOMAIN st.map THEN st
    ELSE LET i == st.map[requestUuid]
             s == st.sessions[i]
             s1 == IF cancel THEN CancelSource(s) ELSE s
             s2 == [DisposeSource(s1) EXCEPT !.clearedWith = IF cancel THEN "cancel" ELSE "keep"]
         IN ScheduleDidChange([st EXCEPT !.sessions[i] = s2,
                                         !.map = MapDelete(@, requestUuid)])

\* _clearSession (lines 747-758)
ClearSession(st, requestUuid, cancel) ==
    IF requestUuid \notin DOMAIN st.map THEN st
    ELSE LET i == st.map[requestUuid]
             s == st.sessions[i]
             fire == cancel /\ ~s.isCancellationRequested
             s1 == IF fire THEN CancelSource(s) ELSE s
             s2 == [DisposeSource(s1) EXCEPT !.clearedWith = IF cancel THEN "cancel" ELSE "keep"]
         IN ScheduleDidChange([st EXCEPT !.sessions[i] = s2,
                                         !.map = MapDelete(@, requestUuid)])

----------------------------------------------------------------------------
(* _throttle, the part that runs synchronously inside the call (lines 733-738) *)

ThrottleDiff(t, last) == MIN_REQUEST_INTERVAL - (t - last)

\* Variant: the call awaits the driver up to its dispatch.
StartDriver_Awaited(s, t, last) ==
    [s EXCEPT !.pc = "endpoint"]

\* The driver's position after the synchronous part of _requestCompletion.
StartDriver(s, t, last) ==
    IF ThrottleDiff(t, last) > 0
    THEN [s EXCEPT !.pc = "throttle", !.deadline = t + ThrottleDiff(t, last)]
    ELSE [s EXCEPT !.pc = "resume"]

NewSession(requestKey, uri, version, character) ==
    [requestUuid |-> requestKey, documentUri |-> uri, documentVersion |-> version,
     position |-> character, range |-> character,
     text |-> Empty, done |-> FALSE, error |-> NoError,
     isCancellationRequested |-> FALSE, disposed |-> FALSE,
     pc |-> "created", deadline |-> 0, streamed |-> Empty, stopped |-> FALSE,
     tokenFired |-> FALSE, context |-> NoContext, prompt |-> Empty,
     cancelCalls |-> 0, disposeCalls |-> 0, clearedWith |-> "none", shown |-> FALSE]

\* Lines 558-575: create, register, start the driver.
CreateSession(st, requestKey, uri, version, character) ==
    LET i == Len(st.sessions) + 1
        s == StartDriver(NewSession(requestKey, uri, version, character), now, _lastRequestTimestamp)
    IN [st EXCEPT !.sessions = Append(@, s),
                  !.map = MapSet(@, requestKey, i)]

\* Variant: the stale session is forgotten (`session = undefined`) without _clearSession.
DropStale_Forget(st, requestKey, version) ==
    IF requestKey \in DOMAIN st.map /\ st.sessions[st.map[requestKey]].documentVersion # version
    THEN [st EXCEPT !.map = MapDelete(@, requestKey)]
    ELSE st

\* Variant: the stale session's handle is cancelled and the session stays registered.
DropStale_CancelOnly(st, requestKey, version) ==
    IF requestKey \in DOMAIN st.map /\ st.sessions[st.map[requestKey]].documentVersion # version
    THEN [st EXCEPT !.sessions[st.map[requestKey]] = CancelSource(@)]
    ELSE st

\* Variant: without the test of the document version.
DropStale_Never(st, requestKey, version) == st

\* Lines 553-556: a registered session of another document version is cleared.
DropStale(st, requestKey, version) ==
    IF requestKey \in DOMAIN st.map /\ st.sessions[st.map[requestKey]].documentVersion # version
    THEN ClearSession(st, st.sessions[st.map[requestKey]].requestUuid, TRUE)
    ELSE st

\* Variant: every call starts a session of its own, replacing the registered one.
ProvideOutcome_NoReuse(st0, requestKey, uri, version, character) ==
    [st |-> CreateSession(ClearSession(st0, requestKey, TRUE), requestKey, uri, version, character),
     ret |-> Nothing]

\* Variant: a poll that finds no text yet clears the session.
ProvideOutcome_DropsEmpty(st0, requestKey, uri, version, character) ==
    LET st1 == DropStale(st0, requestKey, version)
    IN IF requestKey \notin DOMAIN st1.map
       THEN [st |-> CreateSession(st1, requestKey, uri, version, character), ret |-> Nothing]
       ELSE LET i == st1.map[requestKey]
                s == st1.sessions[i]
            IN IF Truthy(s.error) \/ s.text = Empty
               THEN [st |-> ClearSession(st1, s.requestUuid, TRUE), ret |-> Nothing]
               ELSE [st |-> [st1 EXCEPT !.sessions[i].shown = TRUE], ret |-> ListOf(s)]

\* Lines 550-591, after the two guards: the registry state and the value returned.
ProvideOutcome(st0, requestKey, uri, version, character) ==
    LET st1 == DropStale(st0, requestKey, version)
    IN IF requestKey \notin DOMAIN st1.map
       THEN [st |-> CreateSession(st1, requestKey, uri, version, character), ret |-> Nothing]
       ELSE LET i == st1.map[requestKey]
                s == st1.sessions[i]
            IN IF Truthy(s.error)
               THEN [st |-> ClearSession(st1, s.requestUuid, TRUE), ret |-> Nothing]
               ELSE IF s.text = Empty
               THEN [st |-> st1, ret |-> Nothing]
               ELSE [st |-> [st1 EXCEPT !.sessions[i].shown = TRUE], ret |-> ListOf(s)]

Creates(st0, requestKey, version) ==
    requestKey \notin DOMAIN DropStale(st0, requestKey, version).map

----------------------------------------------------------------------------
(* Scheduling *)

\* A resolved promise continuation is pending: it runs before any macrotask.
MicrotaskPending == \E i \in 1..Len(sessions) : sessions[i].pc \in {"woken", "resume"}

EmptyMap == [x \in {} |-> 0]

NoKey == <<NoUuid, NoUri, 0, 0>>
NoCall == [kind |-> "none", key |-> NoKey, version |-> 0, ret |-> Nothing]
Suppressed == [kind |-> "suppressed", key |-> NoKey, version |-> 0, ret |-> Nothing]
MidWord == [kind |-> "midword", key |-> NoKey, version |-> 0, ret |-> Nothing]

Init ==
    /\ now = StartTime
    /\ _lastRequestTimestamp = 0
    /\ _sessions = EmptyMap
    /\ sessions = <<>>
    /\ _updateDelayer = 0
    /\ call = NoCall
    /\ dispatches = <<>>
    /\ _langModelServer = "undefined"
    /\ config = [port |-> 0, nonce |-> Nonce]
    /\ server = "created"
    /\ handleRequests = <<>>
    /\ cliSessions = <<>>
    /\ httpRequests = <<>>

Install(st) ==
    /\ sessions' = st.sessions
    /\ _sessions' = st.map
    /\ _updateDelayer' = st.delayer

SetSession(i, s) == sessions' = [sessions EXCEPT ![i] = s]

----------------------------------------------------------------------------
(* Host calls *)

ProvideInlineCompletionItems(uuid, uri, version, character, cfg) ==
    /\ ~MicrotaskPending
    /\ IF ~IsLanguageEnabled(cfg, LanguageId(uri)) \/ IsAtMidWord(DocLine(uri, version), character)
       THEN /\ call' = IF ~IsLanguageEnabled(cfg, LanguageId(uri)) THEN Suppressed ELSE MidWord
            /\ UNCHANGED <<now, _lastRequestTimestamp, _sessions, sessions, _updateDelayer, dispatches>>
       ELSE LET requestKey == RequestKey(uuid, uri, version, character)
                creates == Creates(Here, requestKey, version)
                out == ProvideOutcome(Here, requestKey, uri, version, character)
            IN /\ Install(out.st)
               /\ _lastRequestTimestamp' =
                      IF creates /\ ThrottleDiff(now, _lastRequestTimestamp) <= 0
                      THEN now ELSE _lastRequestTimestamp
               /\ call' = [kind |-> IF creates THEN "create" ELSE "poll",
                            key |-> requestKey, version |-> version, ret |-> out.ret]
               /\ UNCHANGED <<now, dispatches>>
    /\ UNCHANGED serverVars

\* The correlation ids the host holds: those of items it was given.
Shown == {sessions[i].requestUuid : i \in {j \in 1..Len(sessions) : sessions[j].shown}}

\* Variant: handleEndOfLifetime forces the cancellation.
HandleEndOfLifetime_Cancels(correlationId) ==
    /\ ~MicrotaskPending
    /\ Install(ClearSession(Here, correlationId, TRUE))
    /\ UNCHANGED <<now, _lastRequestTimestamp, call, dispatches>>
    /\ UNCHANGED serverVars

HandleEndOfLifetime(correlationId) ==
    /\ ~MicrotaskPending
    /\ Install(ClearSession(Here, correlationId, FALSE))
    /\ UNCHANGED <<now, _lastRequestTimestamp, call, dispatches>>
    /\ UNCHANGED serverVars

HandleListEndOfLifetime(correlationId) ==
    /\ ~MicrotaskPending
    /\ Install(ClearSession(Here, correlationId, FALSE))
    /\ UNCHANGED <<now, _lastRequestTimestamp, call, dispatches>>
    /\ UNCHANGED serverVars

\* Variant: without the listener of line 572, only the handle's link to its parent.
HostTokenFires_NoListener(i) ==
    /\ ~MicrotaskPending
    /\ ~sessions[i].tokenFired
    /\ ~sessions[i].disposed \/ sessions[i].requestUuid \in DOMAIN _sessions
    /\ LET s == sessions[i]
           s1 == [s EXCEPT !.tokenFired = TRUE]
       IN SetSession(i, IF ~s.disposed THEN CancelSource(s1) ELSE s1)
    /\ UNCHANGED <<now, _lastRequestTimestamp, _sessions, _updateDelayer, call, dispatches>>
    /\ UNCHANGED serverVars

\* The host token of the call that created session i fires: first the listener the
\* CancellationTokenSource put on its parent (line 560), then the one of line 572.
\* A firing that finds neither listener with anything to do changes nothing and is left out.
HostTokenFires(i) ==
    /\ ~MicrotaskPending
    /\ ~sessions[i].tokenFired
    /\ ~sessions[i].disposed \/ sessions[i].requestUuid \in DOMAIN _sessions
    /\ LET s == sessions[i]
           s1 == [s EXCEPT !.tokenFired = TRUE]
           s2 == IF ~s.disposed THEN CancelSource(s1) ELSE s1
           st == [Here EXCEPT !.sessions[i] = s2]
       IN Install(ClearSession(st, s.requestUuid, TRUE))
    /\ UNCHANGED <<now, _lastRequestTimestamp, call, dispatches>>
    /\ UNCHANGED serverVars

----------------------------------------------------------------------------
(* The streaming session driver: _requestCompletion, lines 608-681 *)

\* Variant: the finally block without `session.cancellation.dispose()`.
Finally_NoDispose(s) == [s EXCEPT !.pc = "finished"]

\* Variant: a driver that ends with an error recorded starts over.
Finally_Retries(s) ==
    [DisposeSource(s) EXCEPT !.pc = IF s.error # NoError THEN "resume" ELSE "finished"]

\* finally (lines 675-680): dispose, and schedule an update when an error is recorded.
Finally(s) == [DisposeSource(s) EXCEPT !.pc = "finished"]

FinallySchedules(s) == Truthy(s.error)

\* Variant: catch without the test of the token.
Catch_Always(s, message) == [s EXCEPT !.error = message]

\* catch (lines 669-674)
Catch(s, message) ==
    IF ~s.isCancellationRequested THEN [s EXCEPT !.error = message] ELSE s

\* Variant: finishedCb without the test of the token.
FinishedCb_IgnoresCancel(s, text, delta) ==
    IF delta # Empty THEN [s EXCEPT !.text = text] ELSE s

\* Variant: finishedCb stores the delta instead of the cumulative text.
FinishedCb_StoresDelta(s, text, delta) ==
    IF s.isCancellationRequested THEN [s EXCEPT !.stopped = TRUE]
    ELSE IF delta # Empty THEN [s EXCEPT !.text = delta]
    ELSE s

\* finishedCb (lines 639-650): `text` is the transport's cumulative text, `delta` its new part.
FinishedCb(s, text, delta) ==
    IF s.isCancellationRequested THEN [s EXCEPT !.stopped = TRUE]
    ELSE IF delta # Empty THEN [s EXCEPT !.text = text]
    ELSE s

FinishedCbSchedules(s, delta) == ~s.isCancellationRequested /\ delta # Empty

\* Variant: a successful resolution never stores response.value.
OnResponse_NoFinalValue(s, response) ==
    IF response.type = "success"
    THEN [s EXCEPT !.done = TRUE]
    ELSE IF response.type = "canceled"
    THEN [s EXCEPT !.error = "cancelled"]
    ELSE [s EXCEPT !.error = response.reason]

\* Variant: a successful resolution always stores response.value.
OnResponse_Overwrite(s, response) ==
    IF response.type = "success"
    THEN [s EXCEPT !.text = response.value, !.done = TRUE]
    ELSE IF response.type = "canceled"
    THEN [s EXCEPT !.error = "cancelled"]
    ELSE [s EXCEPT !.error = response.reason]

\* Lines 657-668: the resolution of fetchOne.
OnResponse(s, response) ==
    IF response.type = "success"
    THEN [s EXCEPT !.text = IF @ = Empty THEN response.value ELSE @, !.done = TRUE]
    ELSE IF response.type = "canceled"
    THEN [s EXCEPT !.error = "cancelled"]
    ELSE [s EXCEPT !.error = response.reason]

OnResponseSchedules(s, response) ==
    response.type = "success" /\ s.text = Empty

Responses ==
    {[type |-> "success", value |-> v, reason |-> ""] : v \in Texts}
    \cup {[type |-> "canceled", value |-> Empty, reason |-> ""]}
    \cup {[type |-> "failed", value |-> Empty, reason |-> r] : r \in Reasons}

\* The timer of raceCancellation(timeout(diff), token) fires (line 736).
ThrottleTimerFires(i) ==
    /\ ~MicrotaskPending
    /\ sessions[i].pc = "throttle"
    /\ now >= sessions[i].deadline
    /\ SetSession(i, [sessions[i] EXCEPT !.pc = "woken", !.deadline = 0])
    /\ UNCHANGED <<now, _lastRequestTimestamp, _sessions, _updateDelayer, call, dispatches>>
    /\ UNCHANGED serverVars

\* _throttle resumes after its wait (line 738), whether the timer or the token ended it.
ThrottleResumes(i) ==
    /\ sessions[i].pc = "woken"
    /\ _lastRequestTimestamp' = now
    /\ SetSession(i, [sessions[i] EXCEPT !.pc = "resume"])
    /\ UNCHANGED <<now, _sessions, _updateDelayer, call, dispatches>>
    /\ UNCHANGED serverVars

\* Variant: _requestCompletion without the test of lines 611-613.
AfterThrottle_NoCancelCheck(i) ==
    /\ sessions[i].pc = "resume"
    /\ SetSession(i, [sessions[i] EXCEPT
                         !.pc = "endpoint",
                         !.context = ExtractContext(DocLine(sessions[i].documentUri,
                                                            sessions[i].documentVersion),
                                                    sessions[i].position)])
    /\ dispatches' = Append(dispatches, now)
    /\ UNCHANGED <<now, _lastRequestTimestamp, _sessions, _updateDelayer, call>>
    /\ UNCHANGED serverVars

\* _requestCompletion resumes after `await this._throttle(...)` (lines 611-616).
AfterThrottle(i) ==
    /\ sessions[i].pc = "resume"
    /\ IF sessions[i].isCancellationRequested
       THEN /\ SetSession(i, Finally(sessions[i]))
            /\ UNCHANGED dispatches
       ELSE /\ SetSession(i, [sessions[i] EXCEPT
                                 !.pc = "endpoint",
                                 !.context = ExtractContext(DocLine(sessions[i].documentUri,
                                                                    sessions[i].documentVersion),
                                                            sessions[i].position)])
            /\ dispatches' = Append(dispatches, now)
    /\ UNCHANGED <<now, _lastRequestTimestamp, _sessions, _updateDelayer, call>>
    /\ UNCHANGED serverVars

\* getChatEndpoint resolves and fetchOne is called (lines 616-655).
EndpointResolves(i) ==
    /\ ~MicrotaskPending
    /\ sessions[i].pc = "endpoint"
    /\ SetSession(i, [sessions[i] EXCEPT
                         !.pc = "fetch",
                         !.prompt = BuildUserPrompt(LanguageId(sessions[i].documentUri),
                                                    sessions[i].context.prefix,
                                                    sessions[i].context.suffix,
                                                    NoUserPrompt)])
    /\ UNCHANGED <<now, _lastRequestTimestamp, _sessions, _updateDelayer, call, dispatches>>
    /\ UNCHANGED serverVars

\* The transport delivers a delta.
DeltaArrives(i, delta) ==
    /\ ~MicrotaskPending
    /\ sessions[i].pc = "fetch"
    /\ ~sessions[i].stopped
    /\ LET s == [sessions[i] EXCEPT !.streamed = @ \o delta]
       IN /\ SetSession(i, FinishedCb(s, s.streamed, delta))
          /\ _updateDelayer' = IF FinishedCbSchedules(s, delta)
                               THEN Trigger(_updateDelayer, now) ELSE _updateDelayer
    /\ UNCHANGED <<now, _lastRequestTimestamp, _sessions, call, dispatches>>
    /\ UNCHANGED serverVars

\* fetchOne resolves.
FetchResolves(i, response) ==
    /\ ~MicrotaskPending
    /\ sessions[i].pc = "fetch"
    /\ LET s == OnResponse(sessions[i], response)
       IN /\ SetSession(i, Finally(s))
          /\ _updateDelayer' = IF OnResponseSchedules(sessions[i], response) \/ FinallySchedules(s)
                               THEN Trigger(_updateDelayer, now) ELSE _updateDelayer
    /\ UNCHANGED <<now, _lastRequestTimestamp, _sessions, call, dispatches>>
    /\ UNCHANGED serverVars

\* getChatEndpoint or fetchOne throws.
DriverThrows(i, message) ==
    /\ ~MicrotaskPending
    /\ sessions[i].pc \in {"endpoint", "fetch"}
    /\ LET s == Catch(sessions[i], message)
       IN /\ SetSession(i, Finally(s))
          /\ _updateDelayer' = IF FinallySchedules(s)
                               THEN Trigger(_updateDelayer, now) ELSE _updateDelayer
    /\ UNCHANGED <<now, _lastRequestTimestamp, _sessions, call, dispatches>>
    /\ UNCHANGED serverVars

----------------------------------------------------------------------------
(* Time and the update delayer *)

Tick(step, maxTicks) ==
    /\ ~MicrotaskPending
    /\ now + step <= StartTime + maxTicks * step
    /\ now' = now + step
    /\ UNCHANGED <<_lastRequestTimestamp, _sessions, sessions, _updateDelayer, call, dispatches>>
    /\ UNCHANGED serverVars

\* The delayer's timer fires and the task fires _onDidChangeEmitter (lines 741-745).
DidChangeFires ==
    /\ ~MicrotaskPending
    /\ _updateDelayer > 0
    /\ now >= _updateDelayer
    /\ _updateDelayer' = 0
    /\ UNCHANGED <<now, _lastRequestTimestamp, _sessions, sessions, call, dispatches>>
    /\ UNCHANGED serverVars

----------------------------------------------------------------------------

\* One step of the engine and its environment. The environment is bounded by the
\* request uuids the host supplies, the number of sessions it may start, the clock
\* step, and what the transport may deliver.
Step(uuids, maxSessions, tickStep, deltas, responses, messages) ==
    \/ \E uuid \in uuids, uri \in Uris, version \in Versions, cfg \in Configs :
         \E character \in 0..Len(DocLine(uri, version)) :
            /\ Creates(Here, RequestKey(uuid, uri, version, character), version)
                   => Len(sessions) < maxSessions
            /\ ProvideInlineCompletionItems(uuid, uri, version, character, cfg)
    \/ \E correlationId \in Shown : HandleEndOfLifetime(correlationId)
    \/ \E correlationId \in Shown : HandleListEndOfLifetime(correlationId)
    \/ \E i \in 1..Len(sessions) : HostTokenFires(i)
    \/ \E i \in 1..Len(sessions) : ThrottleTimerFires(i)
    \/ \E i \in 1..Len(sessions) : ThrottleResumes(i)
    \/ \E i \in 1..Len(sessions) : AfterThrottle(i)
    \/ \E i \in 1..Len(sessions) : EndpointResolves(i)
    \/ \E i \in 1..Len(sessions), delta \in deltas :
         /\ Len(sessions[i].streamed) + Len(delta) <= MaxTextLen
         /\ DeltaArrives(i, delta)
    \/ \E i \in 1..Len(sessions), response \in responses : FetchResolves(i, response)
    \/ \E i \in 1..Len(sessions), message \in messages : DriverThrows(i, message)
    \/ Tick(tickStep, MaxTicks)
    \/ DidChangeFires

Next == Step({"r1"}, MaxSessions, TickStep, Deltas, Responses, Messages)

Spec == Init /\ [][Next]_vars

\* The request throttle on its own: several request uuids on one document, a finer
\* clock, and the drivers followed up to the point where they dispatch (line 616).
ThrottleUuids == {"r1", "r2", "r3"}

NextThrottle ==
    \/ \E uuid \in ThrottleUuids :
         /\ Creates(Here, RequestKey(uuid, "file:///u1", 1, 1), 1) => Len(sessions) < MaxWaiters
         /\ ProvideInlineCompletionItems(uuid, "file:///u1", 1, 1, NoConfig)
    \/ \E i \in 1..Len(sessions) : HostTokenFires(i)
    \/ \E i \in 1..Len(sessions) : ThrottleTimerFires(i)
    \/ \E i \in 1..Len(sessions) : ThrottleResumes(i)
    \/ \E i \in 1..Len(sessions) : AfterThrottle(i)
    \/ Tick(FineStep, MaxFineTicks)

SpecThrottle == Init /\ [][NextThrottle]_vars

\* One session streamed at length: one request uuid at one document version, a
\* transport that delivers up to MaxStreamLen one-character deltas (or empty ones).
StreamDeltas == {Empty, <<"a">>, <<"b">>}

NextStream ==
    \/ /\ Creates(Here, RequestKey("r1", "file:///u1", 1, 1), 1) => Len(sessions) < MaxSolo
       /\ ProvideInlineCompletionItems("r1", "file:///u1", 1, 1, NoConfig)
    \/ \E i \in 1..Len(sessions) : AfterThrottle(i)
    \/ \E i \in 1..Len(sessions) : EndpointResolves(i)
    \/ \E i \in 1..Len(sessions), delta \in StreamDeltas :
         /\ Len(sessions[i].streamed) + Len(delta) <= MaxStreamLen
         /\ DeltaArrives(i, delta)
    \/ \E i \in 1..Len(sessions), response \in Responses : FetchResolves(i, response)

SpecStream == Init /\ [][NextStream]_vars

\* The update delayer with a clock that runs as long as a timer is pending: one
\* request uuid at one document version, the drivers, the host's callbacks and token.
TimePasses(step) ==
    /\ ~MicrotaskPending
    /\ \/ now < _updateDelayer
       \/ \E i \in 1..Len(sessions) : sessions[i].pc = "throttle" /\ now < sessions[i].deadline
    /\ now' = now + step
    /\ UNCHANGED <<_lastRequestTimestamp, _sessions, sessions, _updateDelayer, call, dispatches>>
    /\ UNCHANGED serverVars

NextNotify ==
    \/ /\ Creates(Here, RequestKey("r1", "file:///u1", 1, 1), 1) => Len(sessions) < MaxSessions
       /\ ProvideInlineCompletionItems("r1", "file:///u1", 1, 1, NoConfig)
    \/ \E correlationId \in Shown : HandleEndOfLifetime(correlationId)
    \/ \E i \in 1..Len(sessions) : HostTokenFires(i)
    \/ \E i \in 1..Len(sessions) : ThrottleTimerFires(i)
    \/ \E i \in 1..Len(sessions) : ThrottleResumes(i)
    \/ \E i \in 1..Len(sessions) : AfterThrottle(i)
    \/ \E i \in 1..Len(sessions) : EndpointResolves(i)
    \/ \E i \in 1..Len(sessions), delta \in Deltas :
         /\ Len(sessions[i].streamed) + Len(delta) <= MaxTextLen
         /\ DeltaArrives(i, delta)
    \/ \E i \in 1..Len(sessions), response \in Responses : FetchResolves(i, response)
    \/ TimePasses(TickStep)
    \/ DidChangeFires

\* Timers fire, time passes and continuations run.
SpecNotify ==
    /\ Init
    /\ [][NextNotify]_vars
    /\ WF_vars(DidChangeFires)
    /\ WF_vars(TimePasses(TickStep))
    /\ WF_vars(\E i \in 1..Len(sessions) : ThrottleTimerFires(i))
    /\ WF_vars(\E i \in 1..Len(sessions) : ThrottleResumes(i))
    /\ WF_vars(\E i \in 1..Len(sessions) : AfterThrottle(i))

\* The drivers under fair scheduling: the throttle timers fire, the continuations
\* run, getChatEndpoint and fetchOne resolve unless they throw first.
NextLive ==
    \/ /\ Creates(Here, RequestKey("r1", "file:///u1", 1, 1), 1) => Len(sessions) < MaxSessions
       /\ ProvideInlineCompletionItems("r1", "file:///u1", 1, 1, NoConfig)
    \/ \E correlationId \in Shown : HandleEndOfLifetime(correlationId)
    \/ \E i \in 1..Len(sessions) : HostTokenFires(i)
    \/ \E i \in 1..Len(sessions) : ThrottleTimerFires(i)
    \/ \E i \in 1..Len(sessions) : ThrottleResumes(i)
    \/ \E i \in 1..Len(sessions) : AfterThrottle(i)
    \/ \E i \in 1..Len(sessions) : EndpointResolves(i)
    \/ \E i \in 1..Len(sessions), delta \in Deltas :
         /\ Len(sessions[i].streamed) + Len(delta) <= MaxTextLen
         /\ DeltaArrives(i, delta)
    \/ \E i \in 1..Len(sessions), response \in Responses : FetchResolves(i, response)
    \/ \E i \in 1..Len(sessions), message \in Messages : DriverThrows(i, message)
    \/ TimePasses(TickStep)

SpecLive ==
    /\ Init
    /\ [][NextLive]_vars
    /\ WF_vars(TimePasses(TickStep))
    /\ WF_vars(\E i \in 1..Len(sessions) : ThrottleTimerFires(i))
    /\ WF_vars(\E i \in 1..Len(sessions) : ThrottleResumes(i))
    /\ WF_vars(\E i \in 1..Len(sessions) : AfterThrottle(i))
    /\ WF_vars(\E i \in 1..Len(sessions) : EndpointResolves(i))
    /\ WF_vars(\E i \in 1..Len(sessions), response \in Responses : FetchResolves(i, response))

\* Polls of every kind: with and without a request uuid of the host, on two
\* documents, at two versions and at every cursor that is not mid-word.
PollUris == {"file:///u1", "file:///u2"}

NextPoll ==
    \/ \E uuid \in RequestUuids, uri \in PollUris, version \in Versions :
         \E character \in 0..Len(DocLine(uri, version)) :
            /\ Creates(Here, RequestKey(uuid, uri, version, character), version)
                   => Len(sessions) < MaxSessions
            /\ ProvideInlineCompletionItems(uuid, uri, version, character, NoConfig)
    \/ \E i \in 1..Len(sessions) : ThrottleTimerFires(i)
    \/ \E i \in 1..Len(sessions) : ThrottleResumes(i)
    \/ \E i \in 1..Len(sessions) : AfterThrottle(i)
    \/ \E i \in 1..Len(sessions) : EndpointResolves(i)
    \/ \E i \in 1..Len(sessions), response \in Responses : FetchResolves(i, response)
    \/ Tick(TickStep, MaxTicks)

SpecPoll == Init /\ [][NextPoll]_vars

\* The context windows: a document with no text and one longer than both windows,
\* cursors on either side of each window's limit, and a session per behaviour.
ExtractCursors(uri) ==
    IF uri = "file:///big"
    THEN {0, 1, MAX_PREFIX_CHARS, MAX_PREFIX_CHARS + 1,
          BigLen - MAX_SUFFIX_CHARS, BigLen - 1, BigLen}
    ELSE {0}

NextExtract ==
    \/ \E uri \in ExtractUris :
         \E character \in ExtractCursors(uri) :
            /\ Creates(Here, RequestKey(NoUuid, uri, 1, character), 1) => Len(sessions) < MaxSolo
            /\ ProvideInlineCompletionItems(NoUuid, uri, 1, character, NoConfig)
    \/ \E i \in 1..Len(sessions) : HostTokenFires(i)
    \/ \E i \in 1..Len(sessions) : AfterThrottle(i)
    \/ \E i \in 1..Len(sessions) : EndpointResolves(i)
    \/ \E i \in 1..Len(sessions), delta \in Deltas :
         /\ Len(sessions[i].streamed) + Len(delta) <= MaxTextLen
         /\ DeltaArrives(i, delta)
    \/ \E i \in 1..Len(sessions), response \in Responses : FetchResolves(i, response)

SpecExtract == Init /\ [][NextExtract]_vars

\* One session and everything that can end it: every enablement mapping over the
\* document's language and the wildcard, the host's token and callback, a transport
\* that streams, resolves or throws.
EnableValues == {"true", "false", "undefined"}
EnableConfigs ==
    {NoConfig} \cup
    {[present |-> TRUE, map |-> m] :
        m \in UNION {[K -> EnableValues] : K \in SUBSET {"typescript", "*"}}}

\* error.message of what getChatEndpoint or fetchOne may throw
ThrownMessages == {"", "socket hang up"}

NextDriver ==
    \/ \E cfg \in EnableConfigs :
         /\ Creates(Here, RequestKey("r1", "file:///u1", 1, 1), 1) => Len(sessions) < MaxSolo
         /\ ProvideInlineCompletionItems("r1", "file:///u1", 1, 1, cfg)
    \/ \E correlationId \in Shown : HandleEndOfLifetime(correlationId)
    \/ \E i \in 1..Len(sessions) : HostTokenFires(i)
    \/ \E i \in 1..Len(sessions) : AfterThrottle(i)
    \/ \E i \in 1..Len(sessions) : EndpointResolves(i)
    \/ \E i \in 1..Len(sessions), delta \in Deltas :
         /\ Len(sessions[i].streamed) + Len(delta) <= MaxTextLen
         /\ DeltaArrives(i, delta)
    \/ \E i \in 1..Len(sessions), response \in Responses : FetchResolves(i, response)
    \/ \E i \in 1..Len(sessions), message \in ThrownMessages : DriverThrows(i, message)

SpecDriver == Init /\ [][NextDriver]_vars

----------------------------------------------------------------------------
(* The language-model server: start and getConfig (lines 201-231) *)

\* address.port of the listening socket
ListenPort == 41000

\* start(), the part that runs inside the call: nothing when the port is set,
\* else server.listen(0, '127.0.0.1', callback). The result is the http.Server.
Start(srv, cfg) ==
    IF cfg.port # 0 THEN srv ELSE "binding"

\* getConfig(): a copy of the config
GetConfig(cfg) == cfg

----------------------------------------------------------------------------
(* The language-model server: the HTTP request handler (lines 57-199) *)

Methods == {"OPTIONS", "POST", "GET"}
RequestUrls == {"/v1/responses", "/responses", "//responses", "/", "/v1/models"}
ResponsesUrls == {"/v1/responses", "/responses", "//responses"}

\* req.headers.authorization: absent, or a string (its characters)
NoHeader == [present |-> FALSE, value |-> <<>>]
Header(chars) == [present |-> TRUE, value |-> chars]
BearerSpace == <<"B", "e", "a", "r", "e", "r", " ">>
AuthorizationHeaders ==
    {NoHeader,
     Header(BearerSpace \o Nonce),
     Header(BearerSpace \o <<"n", "2">>),
     Header(BearerSpace),
     Header(<<"B", "a", "s", "i", "c", " ">> \o Nonce),
     Header(<<"b", "e", "a", "r", "e", "r", " ">> \o Nonce),
     Header(Nonce)}

\* The request body: JSON with or without a model, or text that is not JSON
NoModel == "<undefined>"
Models == {NoModel, "", "gpt", "claude", "o1"}
Bodies == {[json |-> TRUE, model |-> m] : m \in Models} \cup {[json |-> FALSE, model |-> NoModel]}

\* What getAllChatEndpoints may resolve with
NoEndpoint == [id |-> 0, family |-> "<undefined>"]
EndpointLists ==
    {<<>>,
     <<[id |-> 1, family |-> "gpt"]>>,
     <<[id |-> 1, family |-> "gpt"], [id |-> 2, family |-> "claude"]>>,
     <<[id |-> 1, family |-> "claude"], [id |-> 2, family |-> "gpt"], [id |-> 3, family |-> "gpt"]>>}

\* String.prototype.startsWith and substring
StartsWith(s, p) == Len(p) <= Len(s) /\ SubSeq(s, 1, Len(p)) = p
Substring(s, from) == SubSeq(s, from + 1, Len(s))

NoAuthKey == [some |-> FALSE, value |-> <<>>]

\* Variant: a header without the Bearer prefix is taken as the key itself.
AuthKey_AnyScheme(authorization) ==
    IF ~authorization.present THEN NoAuthKey
    ELSE IF StartsWith(authorization.value, BearerSpace)
    THEN [some |-> TRUE, value |-> Substring(authorization.value, Len(BearerSpace))]
    ELSE [some |-> TRUE, value |-> authorization.value]

\* Lines 73-75: authHeader?.startsWith('Bearer ') ? authHeader.substring(7) : undefined
AuthKey(authorization) ==
    IF authorization.present /\ StartsWith(authorization.value, BearerSpace)
    THEN [some |-> TRUE, value |-> Substring(authorization.value, Len(BearerSpace))]
    ELSE NoAuthKey

\* line 76: authKey !== this.config.nonce, negated
Authenticated(authorization, cfg) ==
    AuthKey(authorization).some /\ AuthKey(authorization).value = cfg.nonce

\* Variant: a requested model that no endpoint has falls back to the first endpoint.
SelectEndpoint_FallsBack(endpoints, requestedModel) ==
    IF endpoints = <<>> THEN NoEndpoint
    ELSE IF requestedModel # NoModel /\ requestedModel # ""
            /\ \E k \in 1..Len(endpoints) : endpoints[k].family = requestedModel
    THEN endpoints[CHOOSE k \in 1..Len(endpoints) :
                      /\ endpoints[k].family = requestedModel
                      /\ \A j \in 1..(k - 1) : endpoints[j].family # requestedModel]
    ELSE endpoints[1]

\* selectEndpoint (lines 190-199): `if (requestedModel)` is false for undefined and
\* for ''; find returns the first match or undefined; endpoints[0] of no endpoints
\* is undefined.
SelectEndpoint(endpoints, requestedModel) ==
    IF requestedModel # NoModel /\ requestedModel # ""
    THEN IF \E k \in 1..Len(endpoints) : endpoints[k].family = requestedModel
         THEN endpoints[CHOOSE k \in 1..Len(endpoints) :
                           /\ endpoints[k].family = requestedModel
                           /\ \A j \in 1..(k - 1) : endpoints[j].family # requestedModel]
         ELSE NoEndpoint
    ELSE IF endpoints = <<>> THEN NoEndpoint ELSE endpoints[1]

\* A request the handler was called with. status is the status of the first
\* writeHead, 0 while none was written.
NewHttpRequest(method, url, authorization, body) ==
    [method |-> method, url |-> url, authorization |-> authorization, body |-> body,
     pc |-> "received", status |-> 0, bodyRead |-> FALSE, listed |-> FALSE,
     endpoints |-> <<>>, selected |-> NoEndpoint, upstream |-> FALSE]

Answer(r, status) == [r EXCEPT !.pc = "done", !.status = status]

\* The handler up to its first await (lines 58-70 and 94-102).
Request(method, url, authorization, body) ==
    /\ LET r == NewHttpRequest(method, url, authorization, body)
       IN httpRequests' = Append(httpRequests,
              IF method = "OPTIONS" THEN Answer(r, 200)
              ELSE IF method = "POST" /\ url \in ResponsesUrls THEN [r EXCEPT !.pc = "body"]
              ELSE IF method = "GET" /\ url = "/" THEN Answer(r, 200)
              ELSE Answer(r, 404))
    /\ UNCHANGED <<_langModelServer, config, server, handleRequests, cliSessions>>
    /\ UNCHANGED providerVars

\* readRequestBody resolves (lines 70-82), then handleResponsesAPIRequest up to its
\* first await (lines 118-129): 401 without the nonce, 500 when the body is not JSON.
BodyEnds(k) ==
    /\ httpRequests[k].pc = "body"
    /\ LET r == [httpRequests[k] EXCEPT !.bodyRead = TRUE]
       IN httpRequests' = [httpRequests EXCEPT ![k] =
              IF ~Authenticated(r.authorization, config) THEN Answer(r, 401)
              ELSE IF ~r.body.json THEN Answer(r, 500)
              ELSE [r EXCEPT !.pc = "endpoints", !.listed = TRUE]]
    /\ UNCHANGED <<_langModelServer, config, server, handleRequests, cliSessions>>
    /\ UNCHANGED providerVars

\* readRequestBody rejects (line 115): the catch of lines 85-91 answers 500.
BodyFails(k) ==
    /\ httpRequests[k].pc = "body"
    /\ httpRequests' = [httpRequests EXCEPT ![k] = Answer(@, 500)]
    /\ UNCHANGED <<_langModelServer, config, server, handleRequests, cliSessions>>
    /\ UNCHANGED providerVars

\* getAllChatEndpoints resolves (lines 129-174): 404 without endpoints or without a
\* selected endpoint, else the 200 head is written (line 147) and the upstream request is made.
EndpointsResolve(k, endpoints) ==
    /\ httpRequests[k].pc = "endpoints"
    /\ LET r == [httpRequests[k] EXCEPT !.endpoints = endpoints]
           selectedEndpoint == SelectEndpoint(endpoints, r.body.model)
       IN httpRequests' = [httpRequests EXCEPT ![k] =
              IF Len(endpoints) = 0 THEN Answer(r, 404)
              ELSE IF selectedEndpoint = NoEndpoint THEN Answer(r, 404)
              ELSE [r EXCEPT !.pc = "streaming", !.status = 200,
                             !.selected = selectedEndpoint, !.upstream = TRUE]]
    /\ UNCHANGED <<_langModelServer, config, server, handleRequests, cliSessions>>
    /\ UNCHANGED providerVars

\* getAllChatEndpoints rejects: the catch of lines 179-184 answers 500.
EndpointsReject(k) ==
    /\ httpRequests[k].pc = "endpoints"
    /\ httpRequests' = [httpRequests EXCEPT ![k] = Answer(@, 500)]
    /\ UNCHANGED <<_langModelServer, config, server, handleRequests, cliSessions>>
    /\ UNCHANGED providerVars

\* makeChatRequest2 resolves or throws (lines 166-186): the response ends; the head
\* written at line 147 stays the response's head.
UpstreamEnds(k) ==
    /\ httpRequests[k].pc = "streaming"
    /\ httpRequests' = [httpRequests EXCEPT ![k].pc = "done"]
    /\ UNCHANGED <<_langModelServer, config, server, handleRequests, cliSessions>>
    /\ UNCHANGED providerVars

NextHttp ==
    \/ \E method \in Methods, url \in RequestUrls,
          authorization \in AuthorizationHeaders, body \in Bodies :
         /\ Len(httpRequests) < MaxHttp
         /\ Request(method, url, authorization, body)
    \/ \E k \in 1..Len(httpRequests) : BodyEnds(k)
    \/ \E k \in 1..Len(httpRequests) : BodyFails(k)
    \/ \E k \in 1..Len(httpRequests), endpoints \in EndpointLists : EndpointsResolve(k, endpoints)
    \/ \E k \in 1..Len(httpRequests) : EndpointsReject(k)
    \/ \E k \in 1..Len(httpRequests) : UpstreamEnds(k)

SpecHttp == Init /\ [][NextHttp]_vars

----------------------------------------------------------------------------
(* CopilotCLIAgentManager (copilotcliAgentManager.ts, lines 32-79) *)

NoSessionId == "<undefined>"
SessionIds == {NoSessionId, "s1"}
NoServerConfig == [port |-> -1, nonce |-> <<>>]

\* The continuation of `await this.getLangModelServer()` is ready to run.
ManagerMicrotaskPending ==
    \E h \in 1..Len(handleRequests) : handleRequests[h].pc = "server"

\* sessionService.findSessionWrapper: the wrapper tracked under the id, 0 when none
FindSessionWrapper(tracked, sessionId) ==
    IF sessionId # NoSessionId /\ \E k \in 1..Len(tracked) : tracked[k].sessionId = sessionId
    THEN CHOOSE k \in 1..Len(tracked) : tracked[k].sessionId = sessionId
    ELSE 0

\* handleRequest up to its first await: getLangModelServer (lines 34-41) creates
\* the server and calls start() when the field is unset, else returns the field.
HandleRequest(copilotcliSessionId) ==
    /\ ~ManagerMicrotaskPending
    /\ IF _langModelServer = "undefined"
       THEN /\ _langModelServer' = "created"
            /\ server' = Start(server, config)
            /\ handleRequests' = Append(handleRequests,
                   [copilotcliSessionId |-> copilotcliSessionId,
                    pc |-> IF config.port # 0 THEN "server" ELSE "start",
                    serverConfig |-> NoServerConfig])
       ELSE /\ handleRequests' = Append(handleRequests,
                   [copilotcliSessionId |-> copilotcliSessionId,
                    pc |-> "server",
                    serverConfig |-> NoServerConfig])
            /\ UNCHANGED <<_langModelServer, server>>
    /\ UNCHANGED <<config, cliSessions, httpRequests>>
    /\ UNCHANGED providerVars

\* The callback of server.listen (lines 208-221): the port is stored and the
\* promise of start() resolves.
ListenCallback ==
    /\ ~ManagerMicrotaskPending
    /\ server = "binding"
    /\ server' = "listening"
    /\ config' = [config EXCEPT !.port = ListenPort]
    /\ handleRequests' = [h \in 1..Len(handleRequests) |->
           IF handleRequests[h].pc = "start"
           THEN [handleRequests[h] EXCEPT !.pc = "server"]
           ELSE handleRequests[h]]
    /\ UNCHANGED <<_langModelServer, cliSessions, httpRequests>>
    /\ UNCHANGED providerVars

\* Lines 61-70: getConfig, then the wrapper of the session id is updated, or an
\* SDK session is awaited.
AfterGetLangModelServer(h) ==
    /\ handleRequests[h].pc = "server"
    /\ LET serverConfig == GetConfig(config)
           k == FindSessionWrapper(cliSessions, handleRequests[h].copilotcliSessionId)
       IN IF k # 0
          THEN /\ cliSessions' = [cliSessions EXCEPT ![k].port = serverConfig.port]
               /\ handleRequests' = [handleRequests EXCEPT ![h].pc = "invoke",
                                                           ![h].serverConfig = serverConfig]
          ELSE /\ handleRequests' = [handleRequests EXCEPT ![h].pc = "sdk",
                                                           ![h].serverConfig = serverConfig]
               /\ UNCHANGED cliSessions
    /\ UNCHANGED <<_langModelServer, config, server, httpRequests>>
    /\ UNCHANGED providerVars

\* getOrCreateSDKSession resolves (lines 70-72): a CopilotCLISession is created
\* with the config read before the await, and tracked.
SdkSessionResolves(h) ==
    /\ ~ManagerMicrotaskPending
    /\ handleRequests[h].pc = "sdk"
    /\ cliSessions' = Append(cliSessions,
           [sessionId |-> handleRequests[h].copilotcliSessionId,
            port |-> handleRequests[h].serverConfig.port])
    /\ handleRequests' = [handleRequests EXCEPT ![h].pc = "invoke"]
    /\ UNCHANGED <<_langModelServer, config, server, httpRequests>>
    /\ UNCHANGED providerVars

\* session.invoke resolves (lines 75-78).
InvokeResolves(h) ==
    /\ ~ManagerMicrotaskPending
    /\ handleRequests[h].pc = "invoke"
    /\ handleRequests' = [handleRequests EXCEPT ![h].pc = "done"]
    /\ UNCHANGED <<_langModelServer, config, server, cliSessions, httpRequests>>
    /\ UNCHANGED providerVars

NextManager ==
    \/ \E copilotcliSessionId \in SessionIds :
         /\ Len(handleRequests) < MaxCalls
         /\ HandleRequest(copilotcliSessionId)
    \/ ListenCallback
    \/ \E h \in 1..Len(handleRequests) : AfterGetLangModelServer(h)
    \/ \E h \in 1..Len(handleRequests) : SdkSessionResolves(h)
    \/ \E h \in 1..Len(handleRequests) : InvokeResolves(h)

SpecManager == Init /\ [][NextManager]_vars

----------------------------------------------------------------------------
(* Vocabulary of the properties *)

Ids == 1..Len(sessions)

Registered(i) ==
    /\ sessions[i].requestUuid \in DOMAIN _sessions
    /\ _sessions[sessions[i].requestUuid] = i

\* A live session: its driver has not finished and its cancellation handle has not fired.
Live(i) == sessions[i].pc # "finished" /\ ~sessions[i].isCancellationRequested

Keys == {sessions[i].requestUuid : i \in Ids}

Pending(s) == s.text = Empty /\ ~s.done /\ s.error = NoError /\ s.pc \in {"throttle", "resume"}

\* The inputs of a call that gets past the two guards and computes `key`.
CallsFor(key) ==
    {c \in [uuid : RequestUuids, uri : Uris, version : Versions, character : 0..2] :
        /\ c.character <= Len(DocLine(c.uri, c.version))
        /\ ~IsAtMidWord(DocLine(c.uri, c.version), c.character)
        /\ RequestKey(c.uuid, c.uri, c.version, c.character) = key}

Provides(c) == ProvideInlineCompletionItems(c.uuid, c.uri, c.version, c.character, NoConfig)

Outcome(c) ==
    ProvideOutcome(Here, RequestKey(c.uuid, c.uri, c.version, c.character), c.uri, c.version, c.character)

AllCalls == UNION {CallsFor(k) : k \in {RequestKey(u, r, v, ch) : u \in RequestUuids, r \in Uris, v \in Versions, ch \in 0..2}}

----------------------------------------------------------------------------
(* C1: any two consecutive remote dispatches are at least MIN_REQUEST_INTERVAL apart,
   also when several drivers are suspended in the throttle wait at the same time. *)
C1_DispatchSpacing ==
    \A k \in 1..(Len(dispatches) - 1) :
        dispatches[k + 1] - dispatches[k] >= MIN_REQUEST_INTERVAL

(* C2: under one request key at most one session is in the registry at any time: a
   session put into the registry leaves it only through _clearSession, never by being
   overwritten by a second session for its key. *)
C2_OneSessionPerKey ==
    /\ \A i \in Ids : sessions[i].clearedWith = "none" <=> Registered(i)
    /\ \A k \in Keys :
         Cardinality({i \in Ids : sessions[i].requestUuid = k /\ sessions[i].clearedWith = "none"}) <= 1

C2_Witness ==
    /\ call.kind = "poll"
    /\ call.key \in DOMAIN _sessions
    /\ sessions[_sessions[call.key]].documentVersion = call.version

(* C3, as claimed: for every request key at most one session created under it is live. *)
C3_OneLivePerKey ==
    \A k \in Keys :
        Cardinality({i \in Ids : sessions[i].requestUuid = k /\ Live(i)}) <= 1

(* C3, amended: for every request key at most one session created under it is live,
   not counting the sessions an acceptance or expiry callback removed from the
   registry (those callbacks never fire the handle, so such a session stays live
   until its driver ends). *)
C3_OneLivePerKeyAmended ==
    \A k \in Keys :
        Cardinality({i \in Ids : /\ sessions[i].requestUuid = k
                                 /\ Live(i)
                                 /\ sessions[i].clearedWith # "keep"}) <= 1

C3_Witness ==
    \E i, j \in Ids :
        /\ i < j
        /\ sessions[i].requestUuid = sessions[j].requestUuid
        /\ sessions[i].clearedWith = "cancel"
        /\ sessions[i].pc = "fetch"
        /\ Registered(j) /\ Live(j)

C5_IdempotentPoll ==
    [][\A c \in CallsFor(call.key) :
          (/\ Provides(c) /\ call.kind \in {"create", "poll"} /\ c.version = call.version
           /\ call.key \in DOMAIN _sessions)
              => /\ IsPrefix(call.ret.text, call'.ret.text)
                 /\ call'.kind = "poll"]_vars

(* C5, amended: of two successive calls with the same key and document version, the
   later returns the earlier text or an extension of it and creates no session
   provided the session is still registered and has no error recorded when the later
   call arrives; a session that errored, or was removed by the host token or a
   lifecycle callback in between, makes the later call return nothing. *)
C5_IdempotentPollAmended ==
    [][\A c \in CallsFor(call.key) :
          (Provides(c) /\ call.kind \in {"create", "poll"} /\ c.version = call.version)
              => IF call.key \in DOMAIN _sessions /\ ~Truthy(sessions[_sessions[call.key]].error)
                 THEN /\ IsPrefix(call.ret.text, call'.ret.text)
                      /\ call'.ret.text = sessions[_sessions[call.key]].text
                      /\ call'.kind = "poll"
                      /\ Len(sessions') = Len(sessions)
                 ELSE call'.ret = Nothing]_vars

C5_Witness ==
    /\ call.kind = "poll"
    /\ call.ret.some
    /\ call.ret.text # Empty

(* C6: a trigger that finds the registered session of its key at another document
   version fires that session's handle and removes it from the registry, and only then
   registers the new session: the registry maps the key to the new session alone. *)
C6_StaleReplaced ==
    [][\A c \in AllCalls :
          LET key == RequestKey(c.uuid, c.uri, c.version, c.character)
          IN (/\ Provides(c)
              /\ key \in DOMAIN _sessions
              /\ sessions[_sessions[key]].documentVersion # c.version)
                 => LET old == _sessions[key]
                        new == Len(sessions) + 1
                    IN /\ sessions'[old].isCancellationRequested
                       /\ sessions'[old].clearedWith = "cancel"
                       /\ Len(sessions') = new
                       /\ _sessions'[key] = new
                       /\ sessions'[new].documentVersion = c.version
                       /\ ~sessions'[new].isCancellationRequested
                       /\ sessions'[new].clearedWith = "none"]_vars

C6_Witness ==
    \E old, new \in Ids :
        /\ old < new
        /\ sessions[old].requestUuid = sessions[new].requestUuid
        /\ sessions[old].documentVersion # sessions[new].documentVersion
        /\ sessions[old].clearedWith = "cancel"
        /\ Registered(new)
        /\ call.kind = "create" /\ call.key = sessions[new].requestUuid

(* C7: when a streaming session of version 1 is replaced by a trigger at version 2, its
   handle has been fired exactly once, and no handle is ever fired twice (the host token
   of the old call may fire later); the new session is registered in the initial
   Pending state. *)
C7_CancelOnEdit ==
    [][/\ \A i \in 1..Len(sessions') : sessions'[i].cancelCalls <= 1
       /\ \A c \in AllCalls :
            LET key == RequestKey(c.uuid, c.uri, c.version, c.character)
            IN (/\ Provides(c)
                /\ key \in DOMAIN _sessions
                /\ sessions[_sessions[key]].documentVersion # c.version
                /\ sessions[_sessions[key]].pc = "fetch")
                   => LET old == _sessions[key]
                          new == Len(sessions) + 1
                      IN /\ sessions'[old].cancelCalls = 1
                         /\ Len(sessions') = new
                         /\ _sessions'[key] = new
                         /\ sessions'[new].documentVersion = c.version
                         /\ Pending(sessions'[new])]_vars

C7_Witness ==
    \E old, new \in Ids :
        /\ sessions[old].requestUuid = sessions[new].requestUuid
        /\ sessions[old].documentVersion = 1 /\ sessions[new].documentVersion = 2
        /\ sessions[old].pc = "fetch" /\ sessions[old].cancelCalls = 1
        /\ Registered(new) /\ Pending(sessions[new])

(* C8: dispose is invoked exactly once on every session's handle: once the session is
   terminal it has been invoked, and it is never invoked a second time. *)
Terminal(i) ==
    sessions[i].pc = "finished" \/ sessions[i].isCancellationRequested

C8_DisposedExactlyOnce ==
    \A i \in Ids :
        /\ sessions[i].disposeCalls <= 1
        /\ Terminal(i) => sessions[i].disposeCalls = 1

(* C9: a call for a key with no registered session registers a new Pending session and
   returns nothing in the same step: the driver has not gone past its throttle, no
   remote request is dispatched and no delta is taken before the call returns. *)
C9_FirstCallDoesNotBlock ==
    [][\A c \in AllCalls :
          LET key == RequestKey(c.uuid, c.uri, c.version, c.character)
          IN (Provides(c) /\ key \notin DOMAIN _sessions)
                 => LET new == Len(sessions) + 1
                    IN /\ call'.kind = "create"
                       /\ call'.ret = Nothing
                       /\ Len(sessions') = new
                       /\ _sessions'[key] = new
                       /\ Pending(sessions'[new])
                       /\ sessions'[new].streamed = Empty
                       /\ dispatches' = dispatches]_vars

C9_Witness ==
    /\ call.kind = "create"
    /\ call.ret = Nothing
    /\ call.key \in DOMAIN _sessions
    /\ Pending(sessions[_sessions[call.key]])

(* C10: when fetchOne resolves Failed(reason) and no cancellation was requested, the
   session's error is the reason, and the next poll for its key removes the session
   from the registry and returns nothing. *)
C10_FailedIsDiscarded ==
    [][\A i \in Ids, reason \in Reasons :
          (/\ FetchResolves(i, [type |-> "failed", value |-> Empty, reason |-> reason])
           /\ ~sessions[i].isCancellationRequested)
              => /\ sessions'[i].error = reason
                 /\ Registered(i) =>
                      \A c \in CallsFor(sessions[i].requestUuid) :
                          /\ Outcome(c)'.ret = Nothing
                          /\ \/ sessions[i].requestUuid \notin DOMAIN Outcome(c)'.st.map
                             \/ Outcome(c)'.st.map[sessions[i].requestUuid] # i]_vars

(* C11: a poll that finds its key registered at the call's document version, with no
   error and non-empty text, returns exactly the session's text, the range fixed at
   creation and the session's key as correlation id; while the transport streams,
   that text is the transport's cumulative text after the latest delta; and a
   Success resolution leaves the session done. *)
C11_PollReturnsText ==
    [][/\ \A c \in AllCalls :
            LET key == RequestKey(c.uuid, c.uri, c.version, c.character)
            IN (/\ Provides(c)
                /\ key \in DOMAIN _sessions
                /\ sessions[_sessions[key]].documentVersion = c.version
                /\ sessions[_sessions[key]].error = NoError
                /\ sessions[_sessions[key]].text # Empty)
                   => LET s == sessions[_sessions[key]]
                      IN /\ call'.ret = [some |-> TRUE, text |-> s.text,
                                          range |-> s.position, correlationId |-> key]
                         /\ s.pc = "fetch" => call'.ret.text = s.streamed
                         /\ _sessions' = _sessions
       /\ \A i \in Ids, v \in Texts :
            FetchResolves(i, [type |-> "success", value |-> v, reason |-> ""])
                => /\ sessions'[i].done
                   /\ sessions'[i].error = NoError]_vars

C11_Witness ==
    /\ call.kind = "poll"
    /\ call.ret.some
    /\ Len(call.ret.text) = 3
    /\ \E i \in Ids : sessions[i].done /\ sessions[i].text = call.ret.text

(* C12: a call whose cursor is immediately followed by a word character (language
   enabled) returns nothing and changes neither the registry, nor any session, nor
   the throttle timestamp; no driver is started and nothing is dispatched. *)
C12_MidWordSuppressed ==
    [][\A uuid \in RequestUuids, uri \in Uris, version \in Versions, character \in 0..1 :
          (/\ character < Len(DocLine(uri, version))
           /\ DocLine(uri, version)[character + 1] \in WordChars
           /\ ProvideInlineCompletionItems(uuid, uri, version, character, NoConfig))
              => /\ call'.ret = Nothing
                 /\ call'.kind = "midword"
                 /\ UNCHANGED <<_sessions, sessions, _lastRequestTimestamp, _updateDelayer, dispatches>>]_vars

C12_Witness ==
    /\ call.kind = "midword"
    /\ \E i \in Ids : Registered(i) /\ sessions[i].pc = "fetch"

(* C13: when the host reports the end of life of a shown list whose session is
   registered, the session leaves the registry and its handle has fired afterwards
   (it is fired if it had not fired before). *)
C13_ExpiryCancels ==
    [][\A correlationId \in Shown :
          (HandleListEndOfLifetime(correlationId) /\ correlationId \in DOMAIN _sessions)
              => /\ correlationId \notin DOMAIN _sessions'
                 /\ sessions'[_sessions[correlationId]].isCancellationRequested]_vars

(* C14: when the host reports the end of life of a shown item whose session is
   registered, the session leaves the registry, its handle is not fired, and its
   driver and state are left as they are: a request in flight runs on. *)
C14_AcceptanceKeepsRunning ==
    [][\A correlationId \in Shown :
          (HandleEndOfLifetime(correlationId) /\ correlationId \in DOMAIN _sessions)
              => LET i == _sessions[correlationId]
                 IN /\ correlationId \notin DOMAIN _sessions'
                    /\ sessions'[i].isCancellationRequested = sessions[i].isCancellationRequested
                    /\ sessions'[i].cancelCalls = sessions[i].cancelCalls
                    /\ sessions'[i].pc = sessions[i].pc
                    /\ sessions'[i].text = sessions[i].text
                    /\ sessions'[i].done = sessions[i].done
                    /\ sessions'[i].error = sessions[i].error]_vars

C14_Witness ==
    \E i \in Ids :
        /\ sessions[i].clearedWith = "keep"
        /\ ~Registered(i)
        /\ sessions[i].pc = "fetch"
        /\ ~sessions[i].isCancellationRequested
        /\ sessions[i].cancelCalls = 0

(* C15: when _throttle resumes because the token fired during its wait, it leaves
   _lastRequestTimestamp as it was. *)
C15_CancelledWaitKeepsTimestamp ==
    [][\A i \in Ids :
          (ThrottleResumes(i) /\ sessions[i].isCancellationRequested)
              => _lastRequestTimestamp' = _lastRequestTimestamp]_vars

(* C16: every call of _scheduleDidChange is eventually followed by a run of the
   delayer's task: a pending run is never dropped, whatever further calls put it
   off, once the calls stop. *)
C16_TrailingEdge ==
    (_updateDelayer # 0) ~> (_updateDelayer = 0)

C16_Witness ==
    /\ _updateDelayer > now
    /\ now > StartTime
    /\ \E i \in Ids : sessions[i].text # Empty

(* C17: when the host token of the call that created a session fires while that
   session is registered, the session's handle has fired and the session has left the
   registry, so that the next call for its key registers a fresh Pending session and
   returns nothing. *)
C17_HostTokenInvalidates ==
    [][\A i \in Ids :
          (HostTokenFires(i) /\ Registered(i))
              => /\ sessions'[i].isCancellationRequested
                 /\ sessions[i].requestUuid \notin DOMAIN _sessions'
                 /\ \A c \in CallsFor(sessions[i].requestUuid) :
                      LET out == Outcome(c)'
                          new == Len(sessions) + 1
                      IN /\ out.ret = Nothing
                         /\ Len(out.st.sessions) = new
                         /\ out.st.map[sessions[i].requestUuid] = new
                         /\ out.st.sessions[new].text = Empty
                         /\ out.st.sessions[new].error = NoError
                         /\ ~out.st.sessions[new].isCancellationRequested]_vars

C17_Witness ==
    \E i, j \in Ids :
        /\ i < j
        /\ sessions[i].tokenFired /\ sessions[i].clearedWith = "cancel"
        /\ sessions[i].isCancellationRequested
        /\ sessions[j].requestUuid = sessions[i].requestUuid
        /\ sessions[j].documentVersion = sessions[i].documentVersion
        /\ Registered(j) /\ ~sessions[j].tokenFired

(* C18: once a session's handle has fired, its text, done flag and error are never
   changed again, whatever the transport delivers or resolves with afterwards. *)
C18_NoMutationAfterCancel ==
    [][\A i \in Ids :
          sessions[i].isCancellationRequested
              => /\ sessions'[i].text = sessions[i].text
                 /\ sessions'[i].done = sessions[i].done
                 /\ sessions'[i].error = sessions[i].error]_vars

(* C19: a driver that ends because the remote call resolved Canceled, or whose
   session's handle had fired, leaves the session's error unset, and a later poll of
   the session (still registered, same version) does not discard it as errored. *)
C19_CancelledHasNoError ==
    [][\A i \in Ids :
          (\/ FetchResolves(i, [type |-> "canceled", value |-> Empty, reason |-> ""])
           \/ /\ sessions[i].isCancellationRequested
              /\ sessions[i].pc # "finished"
              /\ sessions'[i].pc = "finished")
              => /\ sessions'[i].error = NoError
                 /\ Registered(i)' =>
                      \A c \in CallsFor(sessions[i].requestUuid) :
                          c.version = sessions[i].documentVersion
                              => /\ sessions[i].requestUuid \in DOMAIN Outcome(c)'.st.map
                                 /\ Outcome(c)'.st.map[sessions[i].requestUuid] = i]_vars

(* C20: when fetchOne resolves Success the session is done; if its text was still
   empty the text becomes the final value and a run of the delayer is scheduled; if
   deltas had produced text, the text stays what was streamed. *)
C20_SuccessCompletes ==
    [][\A i \in Ids, v \in Texts :
          FetchResolves(i, [type |-> "success", value |-> v, reason |-> ""])
              => /\ sessions'[i].done
                 /\ IF sessions[i].text = Empty
                    THEN /\ sessions'[i].text = v
                         /\ _updateDelayer' = now + STREAM_UPDATE_DELAY
                    ELSE sessions'[i].text = sessions[i].text]_vars

C20_Witness ==
    \E i \in Ids :
        /\ sessions[i].done
        /\ sessions[i].streamed = Empty
        /\ sessions[i].text # Empty
        /\ _updateDelayer = now + STREAM_UPDATE_DELAY

(* C21: a delta that arrives after the session's handle has fired leaves the text as
   it was, schedules no update and makes finishedCb return the stop signal; a delta
   without text leaves the text as it was and schedules no update. *)
C21_DeltaAfterCancelDiscarded ==
    [][\A i \in Ids, delta \in Deltas :
          DeltaArrives(i, delta)
              => /\ sessions[i].isCancellationRequested
                      => /\ sessions'[i].text = sessions[i].text
                         /\ sessions'[i].stopped
                         /\ _updateDelayer' = _updateDelayer
                 /\ delta = Empty
                      => /\ sessions'[i].text = sessions[i].text
                         /\ _updateDelayer' = _updateDelayer]_vars

C21_Witness ==
    \E i \in Ids :
        /\ sessions[i].isCancellationRequested
        /\ sessions[i].stopped
        /\ sessions[i].streamed # Empty
        /\ sessions[i].text = Empty

(* C22: a driver whose handle fired while it waited in the throttle ends at its next
   step, issues no remote request and records no error. *)
C22_CancelledInThrottleEnds ==
    [][\A i \in Ids :
          (/\ sessions[i].pc = "resume"
           /\ sessions[i].isCancellationRequested
           /\ sessions'[i] # sessions[i])
              => /\ sessions'[i].pc = "finished"
                 /\ sessions'[i].error = NoError
                 /\ dispatches' = dispatches]_vars

C22_Witness ==
    \E i \in Ids :
        /\ sessions[i].pc = "finished"
        /\ sessions[i].isCancellationRequested
        /\ sessions[i].error = NoError
        /\ Len(dispatches) < Len(sessions)

(* C23: an exception thrown inside the driver ends the driver: the message becomes
   the session's error when the handle had not fired, the error stays unset when it
   had, and in both cases the driver finishes and disposes the handle. *)
C23_ExceptionRecordedUnlessCancelled ==
    [][\A i \in Ids, message \in ThrownMessages :
          DriverThrows(i, message)
              => /\ sessions'[i].pc = "finished"
                 /\ sessions'[i].disposed
                 /\ sessions'[i].error =
                        IF sessions[i].isCancellationRequested THEN NoError ELSE message]_vars

C23_Witness ==
    \E i \in Ids :
        /\ sessions[i].pc = "finished"
        /\ sessions[i].error = "socket hang up"
        /\ ~sessions[i].isCancellationRequested

(* C24: whenever a driver ends and leaves an error recorded on its session, that step
   schedules an update notification. *)
C24_ErrorSchedulesUpdate ==
    [][\A i \in Ids :
          (/\ sessions[i].pc # "finished"
           /\ sessions'[i].pc = "finished"
           /\ sessions'[i].error # NoError)
              => _updateDelayer' = now + STREAM_UPDATE_DELAY]_vars

\* The driver's position in _requestCompletion, in program order.
DriverRank(pc) ==
    CASE pc = "created" -> 0
      [] pc = "throttle" -> 1
      [] pc = "woken" -> 2
      [] pc = "resume" -> 3
      [] pc = "endpoint" -> 4
      [] pc = "fetch" -> 5
      [] pc = "finished" -> 6

(* C25: a session issues at most one remote request: its driver only moves forward,
   a request is issued exactly when one driver passes from the throttle to the
   endpoint, and a session appears only in a call of the host that creates it. *)
C25_OneRequestPerSession ==
    [][/\ Len(sessions') >= Len(sessions)
       /\ \A i \in Ids : DriverRank(sessions'[i].pc) >= DriverRank(sessions[i].pc)
       /\ LET issuing == {i \in Ids : sessions[i].pc = "resume" /\ sessions'[i].pc = "endpoint"}
          IN /\ Cardinality(issuing) <= 1
             /\ Len(dispatches') = Len(dispatches) + Cardinality(issuing)
       /\ Len(sessions') > Len(sessions)
            => /\ Len(sessions') = Len(sessions) + 1
               /\ call'.kind = "create"
               /\ call'.key = sessions'[Len(sessions')].requestUuid
               /\ sessions'[Len(sessions')].pc \in {"throttle", "resume"}]_vars

C25_Witness ==
    /\ Len(sessions) = 2
    /\ Len(dispatches) = 2
    /\ sessions[1].requestUuid = sessions[2].requestUuid
    /\ sessions[1].documentVersion = sessions[2].documentVersion
    /\ Truthy(sessions[1].error)
    /\ sessions[1].pc = "finished"

(* C26: a call of the host that finds a registered session of the same document
   version, with no error recorded and no text yet, returns nothing and changes
   neither the registry, nor the session, nor the delayer, nor the throttle. *)
C26_EmptyPollChangesNothing ==
    [][\A uri \in Uris, version \in Versions, cfg \in EnableConfigs :
          \A character \in 0..Len(DocLine(uri, version)) :
             LET requestKey == RequestKey("r1", uri, version, character)
             IN (/\ requestKey \in DOMAIN _sessions
                 /\ sessions[_sessions[requestKey]].documentVersion = version
                 /\ sessions[_sessions[requestKey]].error = NoError
                 /\ sessions[_sessions[requestKey]].text = Empty
                 /\ ProvideInlineCompletionItems("r1", uri, version, character, cfg))
                    => /\ call'.ret = Nothing
                       /\ UNCHANGED <<now, _lastRequestTimestamp, _sessions, sessions,
                                      _updateDelayer, dispatches>>]_vars

C26_Witness ==
    /\ call.kind = "poll"
    /\ call.ret = Nothing
    /\ \E i \in Ids :
          /\ Registered(i)
          /\ sessions[i].requestUuid = call.key
          /\ sessions[i].documentVersion = call.version
          /\ sessions[i].error = NoError
          /\ sessions[i].text = Empty
          /\ sessions[i].pc = "fetch"

(* C27: the calls of _scheduleDidChange of one window share one notification: a call
   leaves a single run pending, due STREAM_UPDATE_DELAY after it, and the
   notification comes when that run is due and leaves nothing pending. *)
C27_OneNotificationPerWindow ==
    [][_updateDelayer' # _updateDelayer
          => \/ _updateDelayer' = now + STREAM_UPDATE_DELAY
             \/ /\ _updateDelayer > 0
                /\ now >= _updateDelayer
                /\ _updateDelayer' = 0]_vars

\* Two calls at StartTime (a delta with text, the session cleared), none later, and
\* the one notification they share delivered.
C27_Witness ==
    /\ _updateDelayer = 0
    /\ now = StartTime + TickStep
    /\ Len(sessions) = 1
    /\ sessions[1].text # Empty
    /\ sessions[1].streamed # Empty
    /\ sessions[1].clearedWith # "none"

(* C28: the language is enabled when no mapping is configured; otherwise by the
   mapping's value for the document's language id when it has one, else by its value
   for '*' when it has one, else it is enabled. A call for a language that is not
   enabled returns nothing and creates no session. *)
C28_EnablementRule ==
    [][\A cfg \in EnableConfigs :
          ProvideInlineCompletionItems("r1", "file:///u1", 1, 1, cfg)
              => LET has(k) == k \in DOMAIN cfg.map /\ cfg.map[k] # "undefined"
                     enabled == IF ~cfg.present THEN TRUE
                                ELSE IF has("typescript") THEN cfg.map["typescript"] = "true"
                                ELSE IF has("*") THEN cfg.map["*"] = "true"
                                ELSE TRUE
                 IN IF enabled
                    THEN call'.kind \in {"create", "poll"}
                    ELSE /\ call' = Suppressed
                         /\ call'.ret = Nothing
                         /\ UNCHANGED <<_sessions, sessions, _updateDelayer,
                                        _lastRequestTimestamp, dispatches>>]_vars

C28_Witness ==
    /\ call = Suppressed
    /\ sessions = <<>>
    /\ _sessions = EmptyMap
    /\ dispatches = <<>>

(* C29: the prefix is the last min(MAX_PREFIX_CHARS, length) characters before the
   cursor and the suffix the first min(MAX_SUFFIX_CHARS, length) characters after
   it; together they are one contiguous slice of the document around the cursor.
   The extraction has a result for every document and cursor. *)
C29_ContextWindows ==
    \A i \in Ids :
        sessions[i].pc \in {"endpoint", "fetch"} \/ sessions[i].prompt # Empty
            => LET doc == DocLine(sessions[i].documentUri, sessions[i].documentVersion)
                   cursor == sessions[i].position
                   after == Len(doc) - cursor
                   np == IF cursor < MAX_PREFIX_CHARS THEN cursor ELSE MAX_PREFIX_CHARS
                   ns == IF after < MAX_SUFFIX_CHARS THEN after ELSE MAX_SUFFIX_CHARS
                   prefix == sessions[i].context.prefix
                   suffix == sessions[i].context.suffix
               IN /\ sessions[i].context.some
                  /\ Len(prefix) = np
                  /\ Len(suffix) = ns
                  /\ \A k \in 1..np : prefix[k] = doc[cursor - np + k]
                  /\ \A k \in 1..ns : suffix[k] = doc[cursor + k]
                  /\ prefix \o suffix = SubSeq(doc, cursor - np + 1, cursor + ns)

\* Both windows cut: more than MAX_PREFIX_CHARS before the cursor, more than
\* MAX_SUFFIX_CHARS after it.
C29_Witness ==
    \E i \in Ids :
        /\ sessions[i].context.some
        /\ sessions[i].position > MAX_PREFIX_CHARS
        /\ Len(DocLine(sessions[i].documentUri, sessions[i].documentVersion))
               - sessions[i].position > MAX_SUFFIX_CHARS
        /\ Len(sessions[i].context.prefix) = MAX_PREFIX_CHARS
        /\ Len(sessions[i].context.suffix) = MAX_SUFFIX_CHARS

(* C30: on a document with no text and the cursor at (0, 0), the call is not
   suppressed as mid-word, both windows are empty, and the driver goes on to issue
   its request, whose user prompt carries the placeholder for each empty window. *)
C30_EmptyDocumentStillRequests ==
    [][/\ ProvideInlineCompletionItems(NoUuid, "file:///empty", 1, 0, NoConfig)
            => call'.kind \in {"create", "poll"}
       /\ \A i \in Ids :
            sessions[i].documentUri = "file:///empty"
                => /\ (/\ sessions[i].pc = "resume"
                        /\ ~sessions[i].isCancellationRequested
                        /\ sessions'[i] # sessions[i])
                           => /\ sessions'[i].pc = "endpoint"
                              /\ sessions'[i].context = [some |-> TRUE, prefix |-> Empty, suffix |-> Empty]
                              /\ Len(dispatches') = Len(dispatches) + 1
                   /\ (sessions[i].pc = "endpoint" /\ sessions'[i].pc = "fetch")
                           => LET prompt == sessions'[i].prompt
                                  marked(label) ==
                                      \E k \in 1..(Len(prompt) - 2) :
                                          /\ prompt[k] = label
                                          /\ prompt[k + 1] = "\n"
                                          /\ prompt[k + 2] = "<empty>"
                              IN marked("Prefix:") /\ marked("Suffix:")]_vars

C30_Witness ==
    \E i \in Ids :
        /\ sessions[i].documentUri = "file:///empty"
        /\ sessions[i].position = 0
        /\ sessions[i].pc = "fetch"
        /\ Len(dispatches) = 1
        /\ sessions[i].prompt =
               <<"Language: ", "typescript", "\n",
                 "Continue the code at the cursor. Provide only valid code with no explanation or surrounding quotes.",
                 "\n", "\n", "Prefix:", "\n", "<empty>", "\n", "\n", "Suffix:", "\n", "<empty>">>

(* C32: when the host token of the call that created a session fires, no other
   session is cancelled or removed from the registry, also when it is registered
   under the same request key. *)
C32_OldTokenSparesNewerSession ==
    [][\A i \in Ids :
          (~sessions[i].tokenFired /\ sessions'[i].tokenFired)
              => \A j \in Ids \ {i} :
                    /\ Registered(j) => Registered(j)'
                    /\ sessions'[j].isCancellationRequested = sessions[j].isCancellationRequested]_vars

C34_ResultIsOfPolledVersion ==
    [][\A uuid \in RequestUuids, uri \in PollUris, version \in Versions :
          \A character \in 0..Len(DocLine(uri, version)) :
             (/\ ProvideInlineCompletionItems(uuid, uri, version, character, NoConfig)
              /\ call'.ret.some)
                 => LET requestKey == RequestKey(uuid, uri, version, character)
                    IN /\ requestKey \in DOMAIN _sessions
                       /\ sessions[_sessions[requestKey]].documentVersion = version
                       /\ call'.ret.text = sessions[_sessions[requestKey]].text
                       /\ call'.ret.text # Empty]_vars

\* A result at the polled version, after a session of the same key with text for
\* another version was replaced.
C34_Witness ==
    /\ call.ret.some
    /\ \E i, j \in Ids :
          /\ sessions[i].requestUuid = call.key
          /\ sessions[i].documentVersion # call.version
          /\ sessions[i].text # Empty
          /\ sessions[i].clearedWith = "cancel"
          /\ Registered(j)
          /\ sessions[j].requestUuid = call.key
          /\ sessions[j].documentVersion = call.version
          /\ sessions[j].text = call.ret.text

(* C35: a call that returns a result takes it from a session created for the same
   document and the same cursor position as the call, so the range of the item is
   at the position of the call, also when the host supplies the request uuid. *)
C35_ResultIsOfPolledPosition ==
    [][\A uuid \in RequestUuids, uri \in PollUris, version \in Versions :
          \A character \in 0..Len(DocLine(uri, version)) :
             (/\ ProvideInlineCompletionItems(uuid, uri, version, character, NoConfig)
              /\ call'.ret.some)
                 => LET requestKey == RequestKey(uuid, uri, version, character)
                    IN /\ requestKey \in DOMAIN _sessions
                       /\ sessions[_sessions[requestKey]].documentUri = uri
                       /\ sessions[_sessions[requestKey]].position = character
                       /\ call'.ret.range = character]_vars

(* C36: when the throttle timers fire and the remote calls resolve or throw, every
   driver that was started finishes and its session's cancellation handle is
   disposed, whether or not the session is still in the registry. *)
C36_DriversFinish ==
    \A i \in 1..MaxSessions :
        (Len(sessions) >= i)
            ~> (Len(sessions) >= i /\ sessions[i].pc = "finished" /\ sessions[i].disposed)

\* A driver that waited in the throttle, was resumed by the timer and ran to its end
\* with its session still registered.
C36_Witness ==
    \E i \in Ids :
        /\ sessions[i].pc = "finished"
        /\ sessions[i].disposed
        /\ Registered(i)
        /\ ~sessions[i].isCancellationRequested
        /\ now > StartTime
        /\ Len(dispatches) = 2
        /\ dispatches[2] > dispatches[1]

(* C37: handleEndOfLifetime and handleListEndOfLifetime for a correlation id under
   which no session is registered change nothing: not the registry, not a session
   or its handle, not the delayer; so the same callback again is a no-op. *)
C37_CallbackWithoutSessionIsNoOp ==
    [][\A correlationId \in Shown :
          (/\ correlationId \notin DOMAIN _sessions
           /\ \/ HandleEndOfLifetime(correlationId)
              \/ HandleListEndOfLifetime(correlationId))
              => UNCHANGED <<_sessions, sessions, _updateDelayer, _lastRequestTimestamp,
                             dispatches, call, now>>]_vars

\* An item was shown, its first callback removed the session and left the handle
\* unfired; the host still holds the correlation id.
C37_Witness ==
    \E i \in Ids :
        /\ sessions[i].shown
        /\ sessions[i].clearedWith = "keep"
        /\ sessions[i].requestUuid \in Shown
        /\ sessions[i].requestUuid \notin DOMAIN _sessions
        /\ ~MicrotaskPending

(* C38: whatever the interleaving of handleRequest calls, the config a call reads
   from the server has the port the server listens on, never the port of a server
   whose start() has not completed, and no CopilotCLISession holds such a port. *)
C38_ConfigOnlyAfterStart ==
    /\ \A h \in 1..Len(handleRequests) :
          handleRequests[h].pc \in {"sdk", "invoke", "done"}
              => handleRequests[h].serverConfig.port = ListenPort
    /\ \A k \in 1..Len(cliSessions) : cliSessions[k].port = ListenPort

\* The Authorization header is missing, is not a Bearer value, or its Bearer value
\* is not the server's nonce.
BadAuthorization(authorization) ==
    \/ ~authorization.present
    \/ ~StartsWith(authorization.value, BearerSpace)
    \/ authorization.value # BearerSpace \o config.nonce

ResponsesPosts ==
    {k \in 1..Len(httpRequests) :
        httpRequests[k].method = "POST" /\ httpRequests[k].url \in ResponsesUrls}

\* Requests whose endpoints were listed and came back non-empty.
Selections ==
    {k \in 1..Len(httpRequests) :
        httpRequests[k].pc \in {"streaming", "done"} /\ httpRequests[k].endpoints # <<>>}

ModelRequested(r) == r.body.model # NoModel /\ r.body.model # ""

HasFamily(endpoints, family) == \E j \in 1..Len(endpoints) : endpoints[j].family = family

(* C31: once the endpoints are listed, a request that names a model (a non-empty
   model string) streams from the first endpoint whose family equals that model;
   a request that names no model streams from the first endpoint of the list; a
   request whose model no endpoint has is answered 404, has no selected endpoint
   and makes no upstream request. *)
C31_SelectsByFamilyOrFirst ==
    \A k \in Selections :
        LET r == httpRequests[k] IN
        IF ~ModelRequested(r)
        THEN r.selected = r.endpoints[1] /\ r.status = 200 /\ r.upstream
        ELSE IF HasFamily(r.endpoints, r.body.model)
        THEN /\ r.selected.family = r.body.model
             /\ \E j \in 1..Len(r.endpoints) :
                    /\ r.endpoints[j] = r.selected
                    /\ \A i \in 1..(j - 1) : r.endpoints[i].family # r.body.model
             /\ r.status = 200 /\ r.upstream
        ELSE r.selected = NoEndpoint /\ r.status = 404 /\ ~r.upstream /\ r.pc = "done"

\* A request named a model that none of the listed endpoints has and was answered.
C31_Witness ==
    \E k \in Selections :
        /\ ModelRequested(httpRequests[k])
        /\ ~HasFamily(httpRequests[k].endpoints, httpRequests[k].body.model)
        /\ httpRequests[k].status = 404

(* C39: a POST to the responses endpoint without the nonce as its Bearer value
   never lists or selects endpoints and never makes the upstream request; it is
   answered 401 once its body has been read, and 500 when reading its body fails. *)
C39_BadAuthorizationStopsAtTheDoor ==
    \A k \in ResponsesPosts :
        LET r == httpRequests[k] IN
        BadAuthorization(r.authorization) =>
            /\ r.pc \in {"body", "done"}
            /\ ~r.listed /\ r.selected = NoEndpoint /\ ~r.upstream
            /\ r.pc = "done" => r.status = IF r.bodyRead THEN 401 ELSE 500

\* A POST with a Bearer value other than the nonce was answered 401.
C39_Witness ==
    \E k \in ResponsesPosts :
        /\ httpRequests[k].authorization.present
        /\ StartsWith(httpRequests[k].authorization.value, BearerSpace)
        /\ BadAuthorization(httpRequests[k].authorization)
        /\ httpRequests[k].pc = "done"
        /\ httpRequests[k].status = 401

\* The claim as stated: every such POST that is answered is answered 401.
C39_AlwaysAnswered401 ==
    \A k \in ResponsesPosts :
        LET r == httpRequests[k] IN
        BadAuthorization(r.authorization) =>
            /\ ~r.listed /\ r.selected = NoEndpoint /\ ~r.upstream
            /\ r.pc = "done" => r.status = 401

====
